---------------------------- MODULE Spec2Model ----------------------------
(***************************************************************************)
(* A model of app.py, the SHL assessment recommender: one Streamlit script *)
(* run (catalog scrape, input selection, ranking, rendering) and the       *)
(* ranking function recommend_assessments on its own.                      *)
(*                                                                         *)
(* Text.  A Python string is a sequence of pieces; a piece is a word or a  *)
(* separator (" "); two words are never adjacent.  The empty string is    *)
(* <<>>.                                                                   *)
(*                                                                         *)
(* Numbers.  float64 weights and similarities are fixed-point integers in  *)
(* units of 1/Scale; every division truncates.                             *)
(***************************************************************************)
EXTENDS Integers, Sequences, FiniteSets, TLC

VARIABLES
    pc,              \* position of the script / of the call
    df_assessments,  \* the catalog DataFrame (module global, line 63)
    http,            \* outcome of the last requests.get
    mode,            \* st.radio selection
    url,             \* st.text_input value
    user_query,      \* the effective query
    top_n,           \* the top_n argument of the ranker call
    called,          \* whether recommend_assessments was invoked
    recs,            \* the DataFrame recommend_assessments returned
    display,         \* the HTML table handed to st.write
    exc,             \* the exception that ended the run, "none" otherwise
    out              \* the Streamlit calls made so far, in order

vars == <<pc, df_assessments, http, mode, url, user_query, top_n, called,
          recs, display, exc, out>>

----------------------------------------------------------------------------
(* Bounds of the model. *)

MaxCatalog == 3

MaxTopN == 3

MaxQueryLen == 3

MaxParas == 2

----------------------------------------------------------------------------
(* Generic helpers. *)

Range(s) == {s[i] : i \in DOMAIN s}

Min(a, b) == IF a < b THEN a ELSE b

SeqsUpTo(S, n) == UNION {[1..k -> S] : k \in 0..n}

RECURSIVE SumOver(_, _)
SumOver(S, f) ==
    IF S = {} THEN 0
    ELSE LET x == CHOOSE y \in S : TRUE
         IN  f[x] + SumOver(S \ {x}, f)

RECURSIVE SqrtSearch(_, _, _)
SqrtSearch(x, lo, hi) ==
    IF lo >= hi THEN lo
    ELSE LET mid == (lo + hi + 1) \div 2
         IN  IF mid * mid <= x THEN SqrtSearch(x, mid, hi)
             ELSE SqrtSearch(x, lo, mid - 1)

\* floor(sqrt(x)), for 0 <= x < 2^30
Isqrt(x) == SqrtSearch(x, 0, 32767)

----------------------------------------------------------------------------
(* Strings. *)

Separators == {" "}

\* str.lower() on one piece
Lower(w) ==
    CASE w = "Java"    -> "java"
      [] w = "Test"    -> "test"
      [] w = "The"     -> "the"
      [] w = "Unknown" -> "unknown"
      [] w = "C"       -> "c"
      [] w = "Remote"  -> "remote"
      [] w = "Adaptive" -> "adaptive"
      [] w = "IRT"     -> "irt"
      [] OTHER         -> w

\* two words of a string always have a separator between them
WellFormed(text) ==
    \A i \in 1..(Len(text) - 1) :
        text[i] \in Separators \/ text[i + 1] \in Separators

\* " ".join(parts)
RECURSIVE Join(_)
Join(parts) ==
    IF parts = <<>> THEN <<>>
    ELSE IF Len(parts) = 1 THEN parts[1]
    ELSE parts[1] \o <<" ">> \o Join(Tail(parts))

\* a variant of Truthy: `if user_query is not None`
TruthyNotNone(s) == TRUE

\* bool(s) of a Python string: the condition of `if user_query:` and `if url`
Truthy(s) == Len(s) > 0

----------------------------------------------------------------------------
(* TfidfVectorizer(stop_words="english") and cosine_similarity. *)

Scale == 1000

\* round(Scale * ln k) for k = 1..8
LnTable == <<0, 693, 1099, 1386, 1609, 1792, 1946, 2079>>

\* the members of sklearn's ENGLISH_STOP_WORDS that occur in the model's vocabulary
StopWords == {"the", "of", "and", "for"}

\* token_pattern (?u)\b\w\w+\b : runs of two or more word characters
IsToken(w) == w \notin Separators /\ Len(w) >= 2

\* build_analyzer(): lowercase, tokenise, drop stop words
Analyze(text) ==
    LET lowered == [i \in DOMAIN text |-> Lower(text[i])]
        tokens  == SelectSeq(lowered, IsToken)
    IN  SelectSeq(tokens, LAMBDA w : w \notin StopWords)

\* term frequency of t in a token sequence
Count(t, doc) == Cardinality({i \in DOMAIN doc : doc[i] = t})

\* vocabulary_ after fit: every token of every document
Vocabulary(docs) == UNION {Range(docs[i]) : i \in DOMAIN docs}

\* document frequency of t
DocFreq(t, docs) == Cardinality({i \in DOMAIN docs : t \in Range(docs[i])})

\* smooth idf: ln((1 + n) / (1 + df)) + 1
Idf(t, docs) == LnTable[1 + Len(docs)] - LnTable[1 + DocFreq(t, docs)] + Scale

\* sklearn.preprocessing.normalize(norm="l2"): a zero vector stays zero
Normalize(v) ==
    LET norm == Isqrt(SumOver(DOMAIN v, [t \in DOMAIN v |-> v[t] * v[t]]))
    IN  IF norm = 0 THEN v
        ELSE [t \in DOMAIN v |-> (v[t] * Scale) \div norm]

\* one row of transform(): tf * idf over the fitted vocabulary, l2-normalised
TfidfRow(doc, docs) ==
    Normalize([t \in Vocabulary(docs) |-> Count(t, doc) * Idf(t, docs)])

\* cosine_similarity(x, Y).flatten(): normalise both sides, then the dot product
cosine_similarity(x, Y) ==
    LET xn == Normalize(x)
    IN  [i \in DOMAIN Y |->
            LET yn == Normalize(Y[i])
            IN  SumOver(DOMAIN xn, [t \in DOMAIN xn |-> xn[t] * yn[t]]) \div Scale]

----------------------------------------------------------------------------
(* pandas DataFrame: column labels, index labels (0-based) and the rows,   *)
(* each row a function from column label to value.                         *)

CatalogColumns ==
    <<"Assessment Name", "URL", "Remote Testing Support", "Adaptive/IRT Support">>

\* pd.DataFrame() and pd.DataFrame([]): no columns, no rows
EmptyDataFrame == [columns |-> <<>>, index |-> <<>>, data |-> <<>>]

\* pd.DataFrame(products) for a list of dicts
DataFrame(products) ==
    IF products = <<>> THEN EmptyDataFrame
    ELSE [columns |-> CatalogColumns,
          index   |-> [i \in DOMAIN products |-> i - 1],
          data    |-> products]

\* df.empty
IsEmpty(df) == Len(df.data) = 0 \/ Len(df.columns) = 0

\* a variant of ILoc: df.iloc[idx].reset_index(drop=True)
ILocResetIndex(df, idx) ==
    [columns |-> df.columns,
     index   |-> [k \in DOMAIN idx |-> k - 1],
     data    |-> [k \in DOMAIN idx |-> df.data[idx[k] + 1]]]

\* df.iloc[idx]: the rows at the 0-based positions idx, index labels kept
ILoc(df, idx) ==
    [columns |-> df.columns,
     index   |-> [k \in DOMAIN idx |-> df.index[idx[k] + 1]],
     data    |-> [k \in DOMAIN idx |-> df.data[idx[k] + 1]]]

\* df[col] = values : replaces the column, or appends it as the last one
SetColumn(df, col, values) ==
    [columns |-> IF col \in Range(df.columns) THEN df.columns
                 ELSE Append(df.columns, col),
     index   |-> df.index,
     data    |-> [k \in DOMAIN df.data |->
                    [c \in DOMAIN df.data[k] \cup {col} |->
                        IF c = col THEN values[k] ELSE df.data[k][c]]]]

\* df.drop(columns=cols)
DropColumns(df, cols) ==
    [columns |-> SelectSeq(df.columns, LAMBDA c : c \notin cols),
     index   |-> df.index,
     data    |-> [k \in DOMAIN df.data |->
                    [c \in DOMAIN df.data[k] \ cols |-> df.data[k][c]]]]

----------------------------------------------------------------------------
(* Step 1: the catalog scrape.  A page is its sequence of <tr> rows; a row *)
(* has at most one anchor (its stripped text and href) and other text.     *)

\* the strings that occur inside one lower-cased piece
Substrings(w) ==
    CASE w = "remote"   -> {"remote"}
      [] w = "adaptive" -> {"adaptive"}
      [] w = "irt"      -> {"irt"}
      [] OTHER          -> {}

\* `s in text` for a lower-cased text
Contains(text, s) == \E i \in DOMAIN text : s \in Substrings(text[i])

\* link.startswith("http")
StartsWithHttp(link) == link # <<>> /\ link[1] \in {"http://", "https://"}

\* the body of the loop over product_tiles (lines 33-57)
ParseTile(tile) ==
    LET name == IF tile.anchor THEN tile.text ELSE <<"Unknown">>
        href == IF tile.anchor THEN tile.href ELSE <<"#">>
        link == IF tile.anchor /\ ~StartsWithHttp(href)
                THEN <<"https://www.shl.com">> \o href ELSE href
        full == IF tile.text = <<>> THEN tile.rest
                ELSE IF tile.rest = <<>> THEN tile.text
                ELSE tile.text \o <<" ">> \o tile.rest
        text == [i \in DOMAIN full |-> Lower(full[i])]
    IN  [c \in Range(CatalogColumns) |->
            CASE c = "Assessment Name" -> name
              [] c = "URL" -> link
              [] c = "Remote Testing Support" ->
                    IF Contains(text, "remote") THEN "Yes" ELSE "No"
              [] OTHER ->
                    IF Contains(text, "adaptive") \/ Contains(text, "irt")
                    THEN "Yes" ELSE "No"]

\* the rows a fetched page can hold
Tiles ==
    { [anchor |-> TRUE,  text |-> <<"Java", " ", "Test">>,
       href |-> <<"/products/java">>, rest |-> <<"Remote">>],
      [anchor |-> TRUE,  text |-> <<"The", " ", "C">>,
       href |-> <<"https://", "www.shl.com/c">>, rest |-> <<"IRT">>],
      [anchor |-> FALSE, text |-> <<>>,
       href |-> <<>>, rest |-> <<"Remote", " ", "Adaptive">>] }

Pages == SeqsUpTo(Tiles, MaxCatalog)

\* the outcomes of requests.get(url, timeout=...) followed by raise_for_status()
RequestErrors == {"Timeout", "ConnectionError", "HTTPError"}

\* fetch_shl_catalog(): the DataFrame returned and the Streamlit calls made
fetch_shl_catalog(response) ==
    IF response.error # "none"
    THEN [df  |-> EmptyDataFrame,
          out |-> <<[fn |-> "error", arg |-> "Error fetching SHL catalog"]>>]
    ELSE [df  |-> DataFrame([i \in DOMAIN response.page |-> ParseTile(response.page[i])]),
          out |-> <<>>]

\* every catalog a scrape can produce
Catalogs ==
    {fetch_shl_catalog([error |-> "none", page |-> p]).df : p \in Pages}

----------------------------------------------------------------------------
(* Step 3: the recommendation engine. *)

\* sims.argsort(): the default kind ("quicksort") is not stable, so every
\* ascending order of the 0-based positions is a possible result
Argsort(sims) ==
    LET n == Len(sims)
    IN  {p \in [1..n -> 0..(n - 1)] :
            /\ \A i, j \in 1..n : i # j => p[i] # p[j]
            /\ \A i \in 1..(n - 1) : sims[p[i] + 1] <= sims[p[i + 1] + 1]}

\* a[::-1]
Reverse(a) == [i \in DOMAIN a |-> a[Len(a) + 1 - i]]

\* a[:k] for k >= 0
Take(a, k) == SubSeq(a, 1, Min(k, Len(a)))

\* a variant of TopIdx: sims.argsort()[:top_n]
TopIdxAscending(order, n) == Take(order, n)

\* sims.argsort()[::-1][:top_n]
TopIdx(order, n) == Take(Reverse(order), n)

\* recommend_assessments(query, df, top_n): every outcome the call can have,
\* an exception raised or a DataFrame returned
recommend_assessments(query, df, n) ==
    IF "Assessment Name" \notin Range(df.columns)
    THEN {[exc |-> "KeyError", result |-> EmptyDataFrame]}
    ELSE
    LET names == [i \in DOMAIN df.data |-> df.data[i]["Assessment Name"]]
        docs  == [i \in DOMAIN names |-> Analyze(names[i])]
    IN  IF Vocabulary(docs) = {}
        THEN {[exc |-> "ValueError", result |-> EmptyDataFrame]}
        ELSE
        LET name_vectors == [i \in DOMAIN docs |-> TfidfRow(docs[i], docs)]
            query_vector == TfidfRow(Analyze(query), docs)
            sims == cosine_similarity(query_vector, name_vectors)
        IN  { LET idx    == TopIdx(order, n)
                  result == ILoc(df, idx)
              IN  [exc    |-> "none",
                   result |-> SetColumn(result, "Score",
                                 [k \in DOMAIN idx |-> sims[idx[k] + 1]])]
              : order \in Argsort(sims) }

----------------------------------------------------------------------------
(* Step 2: text extraction from a URL. *)

\* what the user can type into st.text_input
Urls == {<<>>, <<"https://", "jobs.example/jd">>, <<"jobs.example/jd">>}

\* the text of one <p> element
Paragraphs == {<<>>, <<"Java">>, <<"the", " ", "unknown">>}

\* requests.get(url, timeout=5): a URL without a scheme raises MissingSchema,
\* any other request times out, fails to connect, or yields a page
UrlResponses(u) ==
    IF ~StartsWithHttp(u)
    THEN {[error |-> "MissingSchema", paras |-> <<>>]}
    ELSE {[error |-> e, paras |-> <<>>] : e \in {"Timeout", "ConnectionError"}}
         \cup {[error |-> "none", paras |-> ps] : ps \in SeqsUpTo(Paragraphs, MaxParas)}

\* a variant of Caught: `except requests.Timeout as e`
CaughtTimeoutOnly(e) == e = "Timeout"

\* `except Exception as e`: every request failure is an Exception
Caught(e) == e \in {"Timeout", "ConnectionError", "HTTPError", "MissingSchema"}

\* extract_text_from_url(url): the exception that leaves the function ("none"
\* when it returns), the string returned and the Streamlit calls made
extract_text_from_url(response) ==
    IF response.error = "none"
    THEN [raised |-> "none", value |-> Join(response.paras), out |-> <<>>]
    ELSE IF Caught(response.error)
    THEN [raised |-> "none", value |-> <<>>,
          out |-> <<[fn |-> "error", arg |-> "Error extracting text"]>>]
    ELSE [raised |-> response.error, value |-> <<>>, out |-> <<>>]

----------------------------------------------------------------------------
(* Step 4: the Streamlit script. *)

TopNDefault == 10

QueryPieces == {"Java", "unknown", "the", " "}

\* what the user can type into st.text_area, and the queries of a direct call
Queries == {q \in SeqsUpTo(QueryPieces, MaxQueryLen) : WellFormed(q)}

NoTable == [header |-> <<>>, rows |-> <<>>]

\* linkify(row)
linkify(row) ==
    <<"<a href=\"">> \o row["URL"] \o <<"\" target=\"_blank\">">>
        \o row["Assessment Name"] \o <<"</a>">>

\* DataFrame.to_html(escape=False, index=False): header and rows in frame order
to_html(df) ==
    [header |-> df.columns,
     rows   |-> [k \in DOMAIN df.data |->
                    [j \in DOMAIN df.columns |-> df.data[k][df.columns[j]]]]]

\* a variant of display_df: the same frame after recs.sort_index()
display_df_sorted(r) ==
    LET pos(k) == CHOOSE j \in DOMAIN r.index :
                     Cardinality({i \in DOMAIN r.index : r.index[i] < r.index[j]}) = k - 1
        sorted == [columns |-> r.columns,
                   index   |-> [k \in DOMAIN r.index |-> r.index[pos(k)]],
                   data    |-> [k \in DOMAIN r.data |-> r.data[pos(k)]]]
        linked == SetColumn(sorted, "Assessment Name",
                     [k \in DOMAIN sorted.data |-> linkify(sorted.data[k])])
    IN  DropColumns(linked, {"URL", "Score"})

\* lines 139-142: the frame that is displayed
display_df(r) ==
    LET linked == SetColumn(r, "Assessment Name",
                     [k \in DOMAIN r.data |-> linkify(r.data[k])])
    IN  DropColumns(linked, {"URL", "Score"})

Init ==
    /\ pc = "fetch"
    /\ df_assessments = EmptyDataFrame
    /\ http = "none"
    /\ mode = "none"
    /\ url = <<>>
    /\ user_query = <<>>
    /\ top_n = TopNDefault
    /\ called = FALSE
    /\ recs = EmptyDataFrame
    /\ display = NoTable
    /\ exc = "none"
    /\ out = <<>>

\* lines 63-121: the scrape, its status message, the title and the blurb
LoadCatalog ==
    /\ pc = "fetch"
    /\ \E response \in {[error |-> e, page |-> <<>>] : e \in RequestErrors}
                       \cup {[error |-> "none", page |-> p] : p \in Pages} :
          LET r == fetch_shl_catalog(response)
          IN  /\ df_assessments' = r.df
              /\ http' = response.error
              /\ out' = out \o r.out
                        \o <<IF IsEmpty(r.df)
                             THEN [fn |-> "error", arg |-> "No product data fetched"]
                             ELSE [fn |-> "success", arg |-> "Fetched SHL catalog data"]>>
                        \o <<[fn |-> "title", arg |-> "SHL Assessment Recommendation System"],
                             [fn |-> "markdown", arg |-> "Enter a job description or URL"]>>
    /\ pc' = "input"
    /\ UNCHANGED <<mode, url, user_query, top_n, called, recs, display, exc>>

\* lines 124-126: mode "Text"
SelectText ==
    /\ pc = "input"
    /\ mode' = "Text"
    /\ \E q \in Queries : user_query' = q
    /\ pc' = "query"
    /\ UNCHANGED <<df_assessments, http, url, top_n, called, recs, display, exc, out>>

\* lines 127-129: mode "URL"
SelectURL ==
    /\ pc = "input"
    /\ mode' = "URL"
    /\ \E u \in Urls :
          /\ url' = u
          /\ IF Truthy(u)
             THEN \E response \in UrlResponses(u) :
                    LET r == extract_text_from_url(response)
                    IN  /\ http' = response.error
                        /\ out' = out \o r.out
                        /\ user_query' = r.value
                        /\ exc' = r.raised
                        /\ pc' = IF r.raised = "none" THEN "query" ELSE "crashed"
             ELSE /\ user_query' = <<>>
                  /\ pc' = "query"
                  /\ UNCHANGED <<http, out, exc>>
    /\ UNCHANGED <<df_assessments, top_n, called, recs, display>>

\* the call recommend_assessments(user_query, df_assessments, top_n)
Invoke(returned, raised) ==
    /\ called' = TRUE
    /\ \E o \in recommend_assessments(user_query, df_assessments, top_n) :
          /\ exc' = o.exc
          /\ recs' = o.result
          /\ pc' = IF o.exc = "none" THEN returned ELSE raised
    /\ UNCHANGED <<df_assessments, http, mode, url, user_query, top_n, display, out>>

\* lines 131-133
Recommend ==
    /\ pc = "query"
    /\ Truthy(user_query)
    /\ Invoke("render", "crashed")

\* lines 135-146
Render ==
    /\ pc = "render"
    /\ display' = to_html(display_df(recs))
    /\ out' = out \o <<[fn |-> "write", arg |-> "### Recommendations"],
                       [fn |-> "write", arg |-> "table"]>>
    /\ pc' = "done"
    /\ UNCHANGED <<df_assessments, http, mode, url, user_query, top_n, called, recs, exc>>

\* lines 147-148
Prompt ==
    /\ pc = "query"
    /\ ~Truthy(user_query)
    /\ out' = out \o <<[fn |-> "info", arg |-> "Please provide text or URL"]>>
    /\ pc' = "done"
    /\ UNCHANGED <<df_assessments, http, mode, url, user_query, top_n, called, recs,
                   display, exc>>

Next == LoadCatalog \/ SelectText \/ SelectURL \/ Recommend \/ Render \/ Prompt

\* one script run
Spec == Init /\ [][Next]_vars

----------------------------------------------------------------------------
(* recommend_assessments called directly, on any scraped catalog, any      *)
(* query and any positive top_n.                                           *)

InitRank ==
    /\ pc = "call"
    /\ df_assessments \in Catalogs
    /\ http = "none"
    /\ mode = "none"
    /\ url = <<>>
    /\ user_query \in Queries
    /\ top_n \in 1..MaxTopN
    /\ called = FALSE
    /\ recs = EmptyDataFrame
    /\ display = NoTable
    /\ exc = "none"
    /\ out = <<>>

Call ==
    /\ pc = "call"
    /\ Invoke("returned", "raised")

NextRank == Call

SpecRank == InitRank /\ [][NextRank]_vars

----------------------------------------------------------------------------
(* Properties. *)

Score(k) == recs.data[k]["Score"]

Returned == called /\ exc = "none"

CatalogSize == Len(df_assessments.data)

\* C1: for every non-empty query, every non-empty catalog and every positive
\* top_n, recommend_assessments returns exactly min(top_n, catalog size) results.
RanksMinTopN ==
    (called /\ Truthy(user_query) /\ ~IsEmpty(df_assessments) /\ top_n > 0)
        => /\ exc = "none"
           /\ Len(recs.data) = Min(top_n, CatalogSize)

\* C2: in the returned frame the scores are non-increasing by position.
ScoresNonIncreasing ==
    Returned => \A k \in 1..(Len(recs.data) - 1) : Score(k) >= Score(k + 1)

\* C2 witness: a result of three rows with three different scores, the last one 0
ScoresStrictlyDecrease ==
    /\ pc = "returned"
    /\ Len(recs.data) = 3
    /\ Score(1) > Score(2)
    /\ Score(2) > Score(3)
    /\ Score(3) = 0

\* C3: entries of equal score appear in catalog order, and when every score
\* is 0 the result is the first top_n catalog entries in catalog order.
TiesInCatalogOrder ==
    (Returned /\ Truthy(user_query)) =>
        /\ \A a, b \in DOMAIN recs.data :
              (a < b /\ Score(a) = Score(b)) => recs.index[a] < recs.index[b]
        /\ (\A k \in DOMAIN recs.data : Score(k) = 0)
              => recs.index = [k \in DOMAIN recs.data |-> k - 1]

\* C4: on an empty catalog recommend_assessments returns an empty frame for
\* every query, without raising.
EmptyCatalogReturnsEmpty ==
    (called /\ IsEmpty(df_assessments))
        => /\ exc = "none"
           /\ recs.data = <<>>

\* C5: a script run continues past a failed catalog fetch with an empty
\* catalog and a warning, and ends with rendered recommendations or with a
\* message, never with an unhandled exception.
RunNeverFatal ==
    /\ exc = "none"
    /\ pc # "crashed"
    /\ (out # <<>> /\ out[1].arg = "Error fetching SHL catalog")
          => /\ IsEmpty(df_assessments)
             /\ out[2].fn = "error"
    /\ pc = "done" => \/ display # NoTable
                      \/ out[Len(out)].fn = "info"

\* C6: when the effective query is the empty string the ranker is not
\* invoked, and the run ends with the prompt to provide text or a URL.
EmptyQueryNeverRanked ==
    user_query = <<>> =>
        /\ ~called
        /\ pc \notin {"render", "crashed"}
        /\ pc = "done" => out[Len(out)] = [fn |-> "info", arg |-> "Please provide text or URL"]

\* C6 witness: a run ended with the prompt after a URL extraction that failed
PromptAfterFailedExtraction ==
    /\ pc = "done"
    /\ mode = "URL"
    /\ Truthy(url)
    /\ http = "ConnectionError"
    /\ user_query = <<>>

\* C7: extract_text_from_url never raises: no request exception ends the run,
\* the run goes on with a string, and with "" whenever the request failed.
ExtractNeverRaises ==
    /\ exc \notin {"Timeout", "ConnectionError", "HTTPError", "MissingSchema"}
    /\ (mode = "URL" /\ Truthy(url)) =>
          /\ pc # "input"
          /\ \A i \in DOMAIN user_query : user_query[i] \in STRING
          /\ http # "none" => user_query = <<>>

\* C7 witness: a URL without a scheme was entered and the run went on
ExtractionFailedOnBadUrl ==
    /\ mode = "URL"
    /\ Truthy(url)
    /\ http = "MissingSchema"
    /\ pc = "query"

\* C8: every result row carries the name, URL and flags of the catalog row at
\* the position it was taken from, no position appears twice, and the catalog
\* itself has no Score column.
ResultsAreCatalogRows ==
    Returned =>
        /\ \A k \in DOMAIN recs.data :
              /\ recs.index[k] \in 0..(CatalogSize - 1)
              /\ \A c \in Range(CatalogColumns) :
                    recs.data[k][c] = df_assessments.data[recs.index[k] + 1][c]
        /\ \A a, b \in DOMAIN recs.index : a # b => recs.index[a] # recs.index[b]
        /\ "Score" \in Range(recs.columns)
        /\ df_assessments.columns = CatalogColumns
        /\ \A i \in DOMAIN df_assessments.data :
              DOMAIN df_assessments.data[i] = Range(CatalogColumns)

\* C8 witness: two of three catalog rows returned, the last catalog row first
ResultReordersCatalog ==
    /\ pc = "returned"
    /\ CatalogSize = 3
    /\ Len(recs.data) = 2
    /\ recs.index[1] = 2
    /\ Score(1) > Score(2)

\* C9: the displayed table has the rows of the returned frame, in the same
\* order and number, the name a hyperlink to the entry's URL, no URL or Score
\* column, the two flags unchanged.
TablePreservesRanking ==
    (pc = "done" /\ called) =>
        /\ display.header =
              <<"Assessment Name", "Remote Testing Support", "Adaptive/IRT Support">>
        /\ Len(display.rows) = Len(recs.data)
        /\ \A k \in DOMAIN recs.data :
              display.rows[k] =
                 << <<"<a href=\"">> \o recs.data[k]["URL"]
                       \o <<"\" target=\"_blank\">">>
                       \o recs.data[k]["Assessment Name"] \o <<"</a>">>,
                    recs.data[k]["Remote Testing Support"],
                    recs.data[k]["Adaptive/IRT Support"] >>

\* C9 witness: a table of three rows whose first row is not the first catalog row
TableOfReorderedRows ==
    /\ pc = "done"
    /\ Len(display.rows) = 3
    /\ recs.index[1] # 0
    /\ Score(1) > Score(3)

\* C10: every run that produces recommendations also offers them as a
\* download named recommendations.json.
RunExportsRecommendations ==
    (pc = "done" /\ called) =>
        \E i \in DOMAIN out :
            /\ out[i].fn = "download_button"
            /\ out[i].arg = "recommendations.json"

=============================================================================
